---- MODULE Spec2Model ----
(***************************************************************************)
(* A model of app/Bond.py: the vanilla coupon bond, its cash-flow          *)
(* schedule, price, Macaulay / modified duration, convexity and the        *)
(* yield-to-maturity solver.                                               *)
(*                                                                         *)
(* Numbers.  The program computes in floating point; the model computes    *)
(* the same expressions in exact rational arithmetic.  A rational is a     *)
(* pair <<n, d>> with d > 0 and gcd(n, d) = 1, so equal rationals are      *)
(* equal pairs.  Rounding is therefore not modelled.                       *)
(*                                                                         *)
(* Exceptions.  A call's outcome is a record [kind, val]: kind is "ok"     *)
(* (val is what the call returns) or the name of the Python exception      *)
(* that leaves the call.                                                   *)
(***************************************************************************)
EXTENDS Integers, Sequences, FiniteSets, TLC

VARIABLES
    ctor,       \* the constructor call made so far: "none", or its arguments and outcome
    instances,  \* the Bond objects that exist (empty, or the one constructed)
    ncalls,     \* how many method calls have been made on the bond
    last        \* the latest method call made on the bond and its outcome

vars == <<ctor, instances, ncalls, last>>

----------------------------------------------------------------------------
(* Exact rational arithmetic. *)

Abs(n) == IF n < 0 THEN -n ELSE n

RECURSIVE Gcd(_, _)
Gcd(a, b) == IF b = 0 THEN a ELSE Gcd(b, a % b)

\* the pair n/d (d # 0) in lowest terms with a positive denominator
Norm(n, d) ==
    LET g == Gcd(Abs(n), Abs(d))
        s == IF d < 0 THEN -1 ELSE 1
    IN  <<s * (n \div g), s * (d \div g)>>

R(n) == <<n, 1>>
Zero == R(0)
One == R(1)

RAdd(p, q) ==
    LET g == Gcd(p[2], q[2])
    IN  Norm(p[1] * (q[2] \div g) + q[1] * (p[2] \div g), p[2] * (q[2] \div g))

RNeg(p) == <<-p[1], p[2]>>

RSub(p, q) == RAdd(p, RNeg(q))

RMul(p, q) ==
    LET g1 == Gcd(Abs(p[1]), q[2])
        g2 == Gcd(Abs(q[1]), p[2])
    IN  Norm((p[1] \div g1) * (q[1] \div g2), (p[2] \div g2) * (q[2] \div g1))

\* 1/p for p # 0
RInv(p) == IF p[1] < 0 THEN <<-p[2], -p[1]>> ELSE <<p[2], p[1]>>

RDiv(p, q) == RMul(p, RInv(q))

RECURSIVE RPow(_, _)
RPow(p, k) == IF k = 0 THEN One ELSE RMul(p, RPow(p, k - 1))

\* -1, 0 or 1 as p < q, p = q or p > q; compares integer parts, then the
\* reciprocals of the fractional parts, so no cross product is formed
RECURSIVE RCmp(_, _)
RCmp(p, q) ==
    LET ip == p[1] \div p[2]
        iq == q[1] \div q[2]
        fp == p[1] % p[2]
        fq == q[1] % q[2]
    IN  IF ip # iq THEN (IF ip < iq THEN -1 ELSE 1)
        ELSE IF fp = 0 \/ fq = 0
             THEN (IF fp = fq THEN 0 ELSE IF fp = 0 THEN -1 ELSE 1)
             ELSE RCmp(<<q[2], fq>>, <<p[2], fp>>)

RLess(p, q) == RCmp(p, q) < 0
RLeq(p, q) == RCmp(p, q) <= 0

\* Python's int() of a number: truncation towards zero
IntTrunc(p) == IF p[1] >= 0 THEN p[1] \div p[2] ELSE -((-p[1]) \div p[2])

\* numpy's sum of an array
RECURSIVE SumTo(_, _)
SumTo(a, n) == IF n = 0 THEN Zero ELSE RAdd(SumTo(a, n - 1), a[n])
Sum(a) == SumTo(a, Len(a))

----------------------------------------------------------------------------
(* Outcomes of calls. *)

Ok(v) == [kind |-> "ok", val |-> v]
Raise(e, v) == [kind |-> e, val |-> v]

----------------------------------------------------------------------------
(* class Bond *)

\* Bond.__init__ rejecting only a negative coupon_frequency (a faulty variant,
\* to test C4's formula)
BondInitStrict(face_value, coupon_rate, maturity, coupon_frequency) ==
    IF coupon_frequency < 0
    THEN Raise("ValueError", Zero)
    ELSE Ok([face_value |-> face_value,
             coupon_rate |-> coupon_rate,
             maturity |-> maturity,
             coupon_frequency |-> coupon_frequency,
             periods |-> IntTrunc(RMul(maturity, R(coupon_frequency))),
             coupon |-> IF coupon_frequency = 0 THEN Zero
                        ELSE RDiv(RMul(face_value, coupon_rate), R(coupon_frequency))])

\* Bond.__init__: the object built from the four terms, or ValueError
BondInit(face_value, coupon_rate, maturity, coupon_frequency) ==
    IF coupon_frequency <= 0
    THEN Raise("ValueError", Zero)
    ELSE Ok([face_value |-> face_value,
             coupon_rate |-> coupon_rate,
             maturity |-> maturity,
             coupon_frequency |-> coupon_frequency,
             periods |-> IntTrunc(RMul(maturity, R(coupon_frequency))),
             coupon |-> RDiv(RMul(face_value, coupon_rate), R(coupon_frequency))])

\* Bond.cash_flows: np.full(periods, coupon), then flows[-1] += face_value.
\* np.full refuses a negative length (ValueError), and on an empty array the
\* index -1 is out of bounds (IndexError).
cash_flows(self) ==
    LET n == self.periods
        flows == [i \in 1..n |-> self.coupon]
    IN  IF n < 0 THEN Raise("ValueError", <<>>)
        ELSE IF n = 0 THEN Raise("IndexError", <<>>)
        ELSE Ok([flows EXCEPT ![n] = RAdd(flows[n], self.face_value)])

\* Bond.time_periods: np.arange(1, periods + 1) / coupon_frequency
time_periods(self) ==
    Ok([i \in 1..self.periods |-> RDiv(R(i), R(self.coupon_frequency))])

\* 1 + yield_rate / coupon_frequency
OnePlus(self, yield_rate) ==
    RAdd(One, RDiv(yield_rate, R(self.coupon_frequency)))

\* 1 / (1 + yield_rate / coupon_frequency) ** (coupon_frequency * t), per entry of t;
\* coupon_frequency * t[i] is the whole number i
discount_factors(self, yield_rate, t) ==
    [i \in 1..Len(t) |->
        RInv(RPow(OnePlus(self, yield_rate),
                  IntTrunc(RMul(R(self.coupon_frequency), t[i]))))]

\* Bond.price
price(self, yield_rate) ==
    LET t == time_periods(self).val
        cf == cash_flows(self)
        d == discount_factors(self, yield_rate, t)
    IN  IF cf.kind # "ok" THEN Raise(cf.kind, Zero)
        ELSE Ok(Sum([i \in 1..Len(t) |-> RMul(cf.val[i], d[i])]))

\* Bond.macaulay_duration computed without the time weights (a faulty variant, to test C7's formula)
macaulay_duration_unweighted(self, yield_rate) ==
    LET t == time_periods(self).val
        cf == cash_flows(self)
        d == discount_factors(self, yield_rate, t)
    IN  IF cf.kind # "ok" THEN Raise(cf.kind, Zero)
        ELSE LET pv == Sum([i \in 1..Len(t) |-> RMul(cf.val[i], d[i])])
                 weighted_times == [i \in 1..Len(t) |-> RMul(cf.val[i], d[i])]
             IN  Ok(RDiv(Sum(weighted_times), pv))

\* Bond.macaulay_duration
macaulay_duration(self, yield_rate) ==
    LET t == time_periods(self).val
        cf == cash_flows(self)
        d == discount_factors(self, yield_rate, t)
    IN  IF cf.kind # "ok" THEN Raise(cf.kind, Zero)
        ELSE LET pv == Sum([i \in 1..Len(t) |-> RMul(cf.val[i], d[i])])
                 weighted_times ==
                     [i \in 1..Len(t) |-> RMul(RMul(t[i], cf.val[i]), d[i])]
             IN  Ok(RDiv(Sum(weighted_times), pv))

\* Bond.modified_duration
modified_duration(self, yield_rate) ==
    LET macaulay == macaulay_duration(self, yield_rate)
    IN  IF macaulay.kind # "ok" THEN macaulay
        ELSE Ok(RDiv(macaulay.val, OnePlus(self, yield_rate)))

\* Bond.convexity
convexity(self, yield_rate) ==
    LET n == self.periods
        cf == cash_flows(self)
        x == OnePlus(self, yield_rate)
    IN  IF cf.kind # "ok" THEN Raise(cf.kind, Zero)
        ELSE LET price_adjusted ==
                     Sum([i \in 1..n |-> RDiv(cf.val[i], RPow(x, i))])
                 convexity_sum ==
                     Sum([i \in 1..n |->
                             RDiv(RMul(R(i * (i + 1)), cf.val[i]), RPow(x, i + 2))])
             IN  Ok(RDiv(convexity_sum,
                         RMul(price_adjusted,
                              R(self.coupon_frequency * self.coupon_frequency))))

----------------------------------------------------------------------------
(* compute_ytm and the root finder it calls. *)

\* the search interval handed to root_scalar: bracket=[0.0001, 1.0]
BracketLo == <<1, 10000>>
BracketHi == One

\* max_iter's default
DefaultMaxIter == 100

\* The yields the root finder can tell apart, in increasing order: the two ends
\* of the bracket and the model's yields between them.  The grid's spacing
\* stands for the tolerance xtol; a root strictly inside a cell is reported as
\* the cell's lower end.
SolverGrid == <<BracketLo, <<1, 20>>, <<1, 10>>, <<1, 2>>, BracketHi>>

\* the sign of f(y) = self.price(y) - market_price, or the exception price raises
f(self, market_price, y) ==
    LET p == price(self, y)
    IN  IF p.kind # "ok" THEN Raise(p.kind, 0) ELSE Ok(RCmp(p.val, market_price))

RootResults(root, converged, iterations) ==
    [root |-> root, converged |-> converged, iterations |-> iterations]

\* The bracketing iteration between grid points lo < hi at which f has opposite
\* signs (slo at lo): one evaluation of f per iteration, at most maxiter of them.
RECURSIVE Bracketing(_, _, _, _, _, _, _)
Bracketing(self, market_price, lo, hi, slo, iterations, maxiter) ==
    IF hi - lo <= 1 THEN RootResults(SolverGrid[lo], TRUE, iterations)
    ELSE IF iterations >= maxiter THEN RootResults(SolverGrid[lo], FALSE, iterations)
    ELSE LET mid == (lo + hi) \div 2
             smid == f(self, market_price, SolverGrid[mid]).val
         IN  IF smid = 0 THEN RootResults(SolverGrid[mid], TRUE, iterations + 1)
             ELSE IF smid = slo
                  THEN Bracketing(self, market_price, mid, hi, slo, iterations + 1, maxiter)
                  ELSE Bracketing(self, market_price, lo, mid, slo, iterations + 1, maxiter)

\* root_scalar(f, bracket=[0.0001, 1.0], method='brentq', xtol=tol, maxiter=max_iter):
\* an exception of f propagates; a zero of f at an end of the bracket is the root;
\* equal signs at the two ends raise ValueError; otherwise the iteration runs
\* and reports whether it converged within maxiter.
root_scalar(self, market_price, maxiter) ==
    LET fa == f(self, market_price, SolverGrid[1])
        fb == f(self, market_price, SolverGrid[Len(SolverGrid)])
    IN  IF fa.kind # "ok" THEN Raise(fa.kind, RootResults(Zero, FALSE, 0))
        ELSE IF fa.val = 0 THEN Ok(RootResults(BracketLo, TRUE, 0))
        ELSE IF fb.val = 0 THEN Ok(RootResults(BracketHi, TRUE, 0))
        ELSE IF fa.val = fb.val THEN Raise("ValueError", RootResults(Zero, FALSE, 0))
        ELSE Ok(Bracketing(self, market_price, 1, Len(SolverGrid), fa.val, 0, maxiter))

\* Bond.compute_ytm returning sol.root whatever sol.converged says (a faulty variant, to test C2's formula)
compute_ytm_unchecked(self, market_price, max_iter) ==
    LET sol == root_scalar(self, market_price, max_iter)
    IN  IF sol.kind # "ok" THEN Raise(sol.kind, Zero) ELSE Ok(sol.val.root)

\* Bond.compute_ytm; guess is not used by the code, and tol is the grid's spacing
compute_ytm(self, market_price, max_iter) ==
    LET sol == root_scalar(self, market_price, max_iter)
    IN  IF sol.kind # "ok" THEN Raise(sol.kind, Zero)
        ELSE IF sol.val.converged THEN Ok(sol.val.root)
        ELSE Raise("ValueError", Zero)

----------------------------------------------------------------------------
(* The inputs the model draws. *)

\* the largest max_iter a caller passes
MaxIter == 3

\* how many method calls a run makes on its bond
MaxCalls == 3

FaceValues == {R(1), R(2)}
CouponRates == {Zero, <<1, 10>>}
Maturities == {<<1, 2>>, <<3, 4>>, R(1)}
Frequencies == {-1, 0, 1, 2}
\* None of them is -coupon_frequency, where 1 + yield_rate/coupon_frequency is 0
\* and the floating-point results are inf or nan, and at none of them is a
\* price of the model's bonds 0.
Yields == {R(-3), <<-1, 2>>, Zero, <<1, 20>>, <<1, 10>>, <<1, 2>>}
MarketPrices == {<<1, 4>>, One, <<3, 2>>, R(3)}

\* the yields strictly inside the solver's bracket
InsideBracket == {y \in Yields : RLess(BracketLo, y) /\ RLess(y, BracketHi)}

----------------------------------------------------------------------------
(* The state machine: a caller constructs one bond and calls its methods. *)

NoCtor ==
    [called |-> FALSE, face_value |-> Zero, coupon_rate |-> Zero,
     maturity |-> Zero, coupon_frequency |-> 0, kind |-> "none"]

\* a method call: the method, its arguments (those it does not take are zero)
\* and its outcome
Call(op, y, mp, mi, res) ==
    [op |-> op, yield_rate |-> y, market_price |-> mp, max_iter |-> mi, res |-> res]

NoCall == Call("none", Zero, Zero, 0, Ok(Zero))

Init ==
    /\ ctor = NoCtor
    /\ instances = {}
    /\ ncalls = 0
    /\ last = NoCall

\* Bond(face_value, coupon_rate, maturity, coupon_frequency)
Construct(fv, cr, m, cf) ==
    /\ ~ctor.called
    /\ LET r == BondInit(fv, cr, m, cf)
       IN  /\ ctor' = [called |-> TRUE, face_value |-> fv, coupon_rate |-> cr,
                       maturity |-> m, coupon_frequency |-> cf, kind |-> r.kind]
           /\ instances' = IF r.kind = "ok" THEN {r.val} ELSE {}
    /\ UNCHANGED <<ncalls, last>>

\* self when a method returns, had the method added the principal to the stored
\* coupon instead of to its own array (a faulty variant, to test C10's formula)
self_after_call_accumulating(self) ==
    [self EXCEPT !.coupon = RAdd(self.coupon, self.face_value)]

\* self when a method returns: after __init__ no method assigns to an
\* attribute of self (cash_flows adds the principal to a fresh array)
self_after_call(self) == self

\* the state after a method call on self with outcome c
Return(self, c) ==
    /\ ncalls < MaxCalls
    /\ ncalls' = ncalls + 1
    /\ instances' = {self_after_call(self)}
    /\ last' = c
    /\ UNCHANGED ctor

CallCashFlows ==
    \E self \in instances :
        Return(self, Call("cash_flows", Zero, Zero, 0, cash_flows(self)))

CallTimePeriods ==
    \E self \in instances :
        Return(self, Call("time_periods", Zero, Zero, 0, time_periods(self)))

CallPrice ==
    \E self \in instances, y \in Yields :
        Return(self, Call("price", y, Zero, 0, price(self, y)))

CallMacaulayDuration ==
    \E self \in instances, y \in Yields :
        Return(self, Call("macaulay_duration", y, Zero, 0, macaulay_duration(self, y)))

CallModifiedDuration ==
    \E self \in instances, y \in Yields :
        Return(self, Call("modified_duration", y, Zero, 0, modified_duration(self, y)))

CallConvexity ==
    \E self \in instances, y \in Yields :
        Return(self, Call("convexity", y, Zero, 0, convexity(self, y)))

CallComputeYtm ==
    \E self \in instances, mp \in MarketPrices, mi \in 1..MaxIter :
        Return(self, Call("compute_ytm", Zero, mp, mi, compute_ytm(self, mp, mi)))

\* compute_ytm(price(y)) with the default max_iter: the argument is evaluated
\* first, and an exception it raises leaves the whole expression
RoundTrip ==
    \E self \in instances, y \in InsideBracket :
        LET p == price(self, y)
        IN  Return(self, Call("round_trip", y, Zero, DefaultMaxIter,
                              IF p.kind # "ok" THEN p
                              ELSE compute_ytm(self, p.val, DefaultMaxIter)))

Next ==
    \/ \E fv \in FaceValues, cr \in CouponRates, m \in Maturities, cf \in Frequencies :
           Construct(fv, cr, m, cf)
    \/ CallCashFlows
    \/ CallTimePeriods
    \/ CallPrice
    \/ CallMacaulayDuration
    \/ CallModifiedDuration
    \/ CallConvexity
    \/ CallComputeYtm
    \/ RoundTrip

Spec == Init /\ [][Next]_vars

----------------------------------------------------------------------------
(* What the claims speak of. *)

\* the bond as __init__ built it from the constructor's arguments
Fresh == BondInit(ctor.face_value, ctor.coupon_rate, ctor.maturity, ctor.coupon_frequency).val

\* a valid bond: face_value > 0, coupon_rate >= 0, maturity > 0, coupon_frequency >= 1
Valid(self) ==
    /\ RLess(Zero, self.face_value)
    /\ RLeq(Zero, self.coupon_rate)
    /\ RLess(Zero, self.maturity)
    /\ self.coupon_frequency >= 1

\* yield_rate > -coupon_frequency
AboveFloor(self, y) == RLess(R(-self.coupon_frequency), y)

\* the call c made again on self
Again(self, c) ==
    CASE c.op = "cash_flows" -> cash_flows(self)
      [] c.op = "time_periods" -> time_periods(self)
      [] c.op = "price" -> price(self, c.yield_rate)
      [] c.op = "macaulay_duration" -> macaulay_duration(self, c.yield_rate)
      [] c.op = "modified_duration" -> modified_duration(self, c.yield_rate)
      [] c.op = "convexity" -> convexity(self, c.yield_rate)
      [] c.op = "compute_ytm" -> compute_ytm(self, c.market_price, c.max_iter)
      [] c.op = "round_trip" ->
            LET p == price(self, c.yield_rate)
            IN  IF p.kind # "ok" THEN p ELSE compute_ytm(self, p.val, c.max_iter)

\* The schedule and the sums as the specification writes them, from the four
\* terms alone: periods = floor(maturity * coupon_frequency), amount_i the
\* coupon, plus the principal at i = periods.
StatedPeriods(self) ==
    LET p == RMul(self.maturity, R(self.coupon_frequency)) IN p[1] \div p[2]

StatedAmount(self, i) ==
    LET c == RDiv(RMul(self.face_value, self.coupon_rate), R(self.coupon_frequency))
    IN  IF i < StatedPeriods(self) THEN c ELSE RAdd(c, self.face_value)

\* sum over i = 1..periods of amount_i * (1 + y/coupon_frequency)^(-i)
StatedPrice(self, y) ==
    Sum([i \in 1..StatedPeriods(self) |->
            RMul(StatedAmount(self, i), RInv(RPow(OnePlus(self, y), i)))])

\* sum over i of i * (i+1) * amount_i * (1 + y/coupon_frequency)^(-(i+2))
StatedConvexitySum(self, y) ==
    Sum([i \in 1..StatedPeriods(self) |->
            RMul(RMul(R(i * (i + 1)), StatedAmount(self, i)),
                 RInv(RPow(OnePlus(self, y), i + 2)))])

----------------------------------------------------------------------------
(* The claims. *)

\* C1 as stated: for every constructed bond and every yield y, price(y) returns
\* the sum over i = 1..periods of amount_i * (1 + y/coupon_frequency)^(-i),
\* the principal being part of the last amount only.
C1_PriceIsTheStatedSum ==
    \A self \in instances :
        last.op = "price" =>
            /\ last.res.kind = "ok"
            /\ last.res.val = StatedPrice(self, last.yield_rate)

\* C1 on the bonds with at least one payment date: the returned price is the
\* stated sum.
C1_PriceIsTheStatedSumWhenReturned ==
    \A self \in instances :
        last.op = "price" /\ self.periods >= 1 =>
            /\ last.res.kind = "ok"
            /\ last.res.val = StatedPrice(self, last.yield_rate)

\* the signs of price(0.0001) - market_price and price(1.0) - market_price are
\* defined, equal and not zero
NoSignChange(self, mp) ==
    LET pa == price(self, BracketLo)
        pb == price(self, BracketHi)
    IN  /\ pa.kind = "ok"
        /\ pb.kind = "ok"
        /\ RCmp(pa.val, mp) # 0
        /\ RCmp(pa.val, mp) = RCmp(pb.val, mp)

\* the root finder ran max_iter iterations without converging
Exhausted(self, mp, mi) ==
    LET sol == root_scalar(self, mp, mi)
    IN  sol.kind = "ok" /\ ~sol.val.converged /\ sol.val.iterations = mi

\* C2: compute_ytm returns a yield only when the solver reported convergence;
\* when the bracket holds no sign change, or max_iter iterations pass without
\* convergence, the call ends in ValueError and returns nothing.
C2_YtmReturnsOnlyConverged ==
    \A self \in instances :
        last.op = "compute_ytm" =>
            LET mp == last.market_price
                mi == last.max_iter
                sol == root_scalar(self, mp, mi)
            IN  /\ last.res.kind = "ok" =>
                    /\ sol.kind = "ok"
                    /\ sol.val.converged
                    /\ last.res.val = sol.val.root
                    /\ RLeq(BracketLo, last.res.val)
                    /\ RLeq(last.res.val, BracketHi)
                /\ NoSignChange(self, mp) => last.res.kind = "ValueError"
                /\ Exhausted(self, mp, mi) => last.res.kind = "ValueError"

\* C2's case: a compute_ytm call whose solver used up max_iter without
\* converging, ended in ValueError
C2_Witness ==
    \E self \in instances :
        /\ last.op = "compute_ytm"
        /\ Exhausted(self, last.market_price, last.max_iter)
        /\ last.res.kind = "ValueError"

\* C3 as stated: for every valid bond and every y strictly inside
\* (0.0001, 1.0), compute_ytm(price(y)) succeeds and returns a yield in the
\* bracket, within tolerance of y (here: y's grid point), at which the price is
\* the given market price.
C3_RoundTrip ==
    \A self \in instances :
        last.op = "round_trip" /\ Valid(self) =>
            /\ last.res.kind = "ok"
            /\ last.res.val = last.yield_rate
            /\ price(self, last.res.val) = price(self, last.yield_rate)

\* C3 on the bonds with at least one payment date
C3_RoundTripWhenPriced ==
    \A self \in instances :
        last.op = "round_trip" /\ Valid(self) /\ self.periods >= 1 =>
            /\ last.res.kind = "ok"
            /\ last.res.val = last.yield_rate
            /\ price(self, last.res.val) = price(self, last.yield_rate)

\* C4: a constructor call with coupon_frequency <= 0 ends in ValueError and
\* leaves no instance; every instance has coupon_frequency >= 1.
C4_FrequencyValidated ==
    /\ ctor.called /\ ctor.coupon_frequency <= 0 =>
            ctor.kind = "ValueError" /\ instances = {}
    /\ ctor.called /\ ctor.coupon_frequency >= 1 =>
            ctor.kind = "ok" /\ instances # {}
    /\ \A self \in instances : self.coupon_frequency >= 1

\* C4's case: the constructor was called with coupon_frequency = 0
C4_Witness ==
    /\ ctor.called
    /\ ctor.coupon_frequency = 0
    /\ ctor.kind = "ValueError"
    /\ instances = {}

\* C5 as stated: on every bond that construction accepts, periods = 0
\* included, cash_flows, time_periods, price, macaulay_duration,
\* modified_duration and convexity raise nothing.
C5_NoErrorAfterConstruction ==
    \A self \in instances :
        last.op \in {"cash_flows", "time_periods", "price", "macaulay_duration",
                     "modified_duration", "convexity"} /\ Valid(self) =>
            last.res.kind = "ok"

\* C6 as stated: for every valid bond and yields y1 < y2, both above
\* -coupon_frequency, price(y1) > price(y2).
C6_PriceStrictlyDecreasing ==
    \A self \in instances :
        last.op = "price" /\ Valid(self) =>
            \A y1 \in Yields :
                RLess(y1, last.yield_rate) /\ AboveFloor(self, y1) =>
                    /\ last.res.kind = "ok"
                    /\ price(self, y1).kind = "ok"
                    /\ RLess(last.res.val, price(self, y1).val)

\* C6 on the bonds with at least one payment date
C6_PriceStrictlyDecreasingWhenPriced ==
    \A self \in instances :
        last.op = "price" /\ Valid(self) /\ self.periods >= 1 =>
            \A y1 \in Yields :
                RLess(y1, last.yield_rate) /\ AboveFloor(self, y1) =>
                    /\ last.res.kind = "ok"
                    /\ price(self, y1).kind = "ok"
                    /\ RLess(last.res.val, price(self, y1).val)

\* price(y) returns a positive value
PricePositive(self, y) ==
    LET p == price(self, y) IN p.kind = "ok" /\ RLess(Zero, p.val)

\* 1/coupon_frequency <= d <= maturity
WithinSchedule(self, d) ==
    /\ RLeq(RDiv(One, R(self.coupon_frequency)), d)
    /\ RLeq(d, self.maturity)

\* C7 as stated: for every valid bond and every yield at which the price is
\* positive, 1/coupon_frequency <= macaulay_duration(y) <= maturity.
C7_MacaulayWithinSchedule ==
    \A self \in instances :
        /\ last.op = "macaulay_duration"
        /\ Valid(self)
        /\ PricePositive(self, last.yield_rate)
        => last.res.kind = "ok" /\ WithinSchedule(self, last.res.val)

\* C7 as amended: for every valid bond and every yield above -coupon_frequency
\* at which the price is positive, 1/coupon_frequency <= macaulay_duration(y)
\* <= maturity.
C7_MacaulayWithinScheduleAboveFloor ==
    \A self \in instances :
        /\ last.op = "macaulay_duration"
        /\ Valid(self)
        /\ AboveFloor(self, last.yield_rate)
        /\ PricePositive(self, last.yield_rate)
        => last.res.kind = "ok" /\ WithinSchedule(self, last.res.val)

\* C7's case: a duration strictly between the first and the last payment time
\* of a coupon bond with two payment dates
C7_Witness ==
    \E self \in instances :
        /\ last.op = "macaulay_duration"
        /\ Valid(self)
        /\ AboveFloor(self, last.yield_rate)
        /\ PricePositive(self, last.yield_rate)
        /\ self.periods = 2
        /\ last.res.kind = "ok"
        /\ RLess(RDiv(One, R(self.coupon_frequency)), last.res.val)
        /\ RLess(last.res.val, self.maturity)

\* C8 as stated: for every valid bond and every yield_rate > 0,
\* modified_duration(yield_rate) returns macaulay_duration(yield_rate) /
\* (1 + yield_rate/coupon_frequency), a value strictly below
\* macaulay_duration(yield_rate).
C8_ModifiedBelowMacaulay ==
    \A self \in instances :
        last.op = "modified_duration" /\ Valid(self) /\ RLess(Zero, last.yield_rate) =>
            LET mac == macaulay_duration(self, last.yield_rate)
            IN  /\ last.res.kind = "ok"
                /\ mac.kind = "ok"
                /\ last.res.val = RDiv(mac.val, OnePlus(self, last.yield_rate))
                /\ RLess(last.res.val, mac.val)

\* C8 on the bonds with at least one payment date
C8_ModifiedBelowMacaulayWhenPriced ==
    \A self \in instances :
        /\ last.op = "modified_duration"
        /\ Valid(self)
        /\ RLess(Zero, last.yield_rate)
        /\ self.periods >= 1
        => LET mac == macaulay_duration(self, last.yield_rate)
           IN  /\ last.res.kind = "ok"
               /\ mac.kind = "ok"
               /\ last.res.val = RDiv(mac.val, OnePlus(self, last.yield_rate))
               /\ RLess(last.res.val, mac.val)

\* convexity's outcome r is the stated sum over (price(y) * coupon_frequency^2)
IsStatedConvexity(self, y, r) ==
    LET p == price(self, y)
    IN  /\ r.kind = "ok"
        /\ p.kind = "ok"
        /\ r.val = RDiv(StatedConvexitySum(self, y),
                        RMul(p.val, R(self.coupon_frequency * self.coupon_frequency)))

\* C9 as stated: for every valid bond and every yield y, convexity(y) returns
\* the sum over i of i * (i+1) * amount_i * (1 + y/coupon_frequency)^(-(i+2)),
\* divided by (price(y) * coupon_frequency^2).
C9_ConvexityIsTheStatedQuotient ==
    \A self \in instances :
        last.op = "convexity" /\ Valid(self) =>
            IsStatedConvexity(self, last.yield_rate, last.res)

\* C9 on the bonds with at least one payment date
C9_ConvexityIsTheStatedQuotientWhenPriced ==
    \A self \in instances :
        last.op = "convexity" /\ Valid(self) /\ self.periods >= 1 =>
            IsStatedConvexity(self, last.yield_rate, last.res)

====
